---------------------------- MODULE Spec2Model ----------------------------
(***************************************************************************)
(* Return-series compounding, drawdown segmentation, calendar bucketing    *)
(* and ratios of quantstats/stats.py: comp, compsum, remove_outliers,      *)
(* to_drawdown_series, max_drawdown, drawdown_details, distribution,       *)
(* monthly_returns, sharpe, sortino, rolling_sortino, omega,               *)
(* value_at_risk, conditional_value_at_risk, match_dates and the input     *)
(* stage of metrics.                                                       *)
(*                                                                         *)
(* A pandas Series is a pair of sequences of equal length: its index       *)
(* (timestamps, here calendar days counted from 2019-12-31, so that day 1  *)
(* is 2020-01-01) and its values.  Values are exact rationals <<n, d>> in  *)
(* lowest terms with d > 0; <<0, 0>> is NaN and <<1, 0>>, <<-1, 0>> are    *)
(* the infinities.                                                         *)
(***************************************************************************)
EXTENDS Integers, Sequences, FiniteSets

VARIABLES
    index,      \* the index (timestamps) of the series in play
    returns,    \* {} or {values of the caller's return series}
    total,      \* {} or {result of comp(returns)}
    curve,      \* {} or {result of compsum(returns)}
    drawdown,   \* {} or {values of the drawdown series in hand}
    details,    \* {} or {result of drawdown_details(drawdown)}
    sample,     \* {} or {values of the series handed to a ratio or risk call}
    table,      \* {} or {the caller's Series or DataFrame handed to a report}
    outcome,    \* {} or {the arguments and the result of that call}
    pair        \* {} or {the returns and the benchmark handed to a call}

vars == <<index, returns, total, curve, drawdown, details,
          sample, table, outcome, pair>>

\* Longest series drawn for the general inputs.
MaxLen == 4

\* Last calendar day an index may hold: one more than MaxLen, so that an
\* index of any length can have gaps.
MaxDay == MaxLen + 1

-----------------------------------------------------------------------------
(* Exact arithmetic on the values of a series.                             *)

Abs(n) == IF n < 0 THEN -n ELSE n

RECURSIVE GCD(_, _)
GCD(a, b) == IF b = 0 THEN a ELSE GCD(b, a % b)

NaN == <<0, 0>>
PosInf == <<1, 0>>
NegInf == <<-1, 0>>

IsNaN(x) == x = NaN
IsFinite(x) == x[2] # 0

\* n/d in lowest terms, d > 0.
Rat(n, d) == LET g == GCD(Abs(n), d) IN <<n \div g, d \div g>>

Zero == Rat(0, 1)
One == Rat(1, 1)

Neg(x) == <<-x[1], x[2]>>

Plus(x, y) ==
    IF IsNaN(x) \/ IsNaN(y) THEN NaN
    ELSE IF ~IsFinite(x) THEN (IF ~IsFinite(y) /\ y # x THEN NaN ELSE x)
    ELSE IF ~IsFinite(y) THEN y
    ELSE LET g == GCD(x[2], y[2])
         IN  Rat(x[1] * (y[2] \div g) + y[1] * (x[2] \div g),
                 (x[2] \div g) * y[2])

Minus(x, y) == Plus(x, Neg(y))

Sign(n) == IF n > 0 THEN 1 ELSE IF n < 0 THEN -1 ELSE 0

Times(x, y) ==
    IF IsNaN(x) \/ IsNaN(y) THEN NaN
    ELSE IF ~IsFinite(x) \/ ~IsFinite(y)
         THEN <<Sign(x[1]) * Sign(y[1]), 0>>
    ELSE LET g1 == GCD(Abs(x[1]), y[2])
             g2 == GCD(Abs(y[1]), x[2])
         IN  <<(x[1] \div g1) * (y[1] \div g2),
               (x[2] \div g2) * (y[2] \div g1)>>

\* Floating-point division: x/0 is an infinity of the sign of x, 0/0 is NaN.
Over(x, y) ==
    IF IsNaN(x) \/ IsNaN(y) THEN NaN
    ELSE IF ~IsFinite(y) THEN (IF IsFinite(x) THEN Zero ELSE NaN)
    ELSE IF y[1] = 0 THEN <<Sign(x[1]), 0>>
    ELSE IF ~IsFinite(x) THEN <<Sign(x[1]) * Sign(y[1]), 0>>
    ELSE Times(x, IF y[1] > 0 THEN <<y[2], y[1]>> ELSE <<-y[2], -y[1]>>)

\* x < y; every comparison with NaN is false.
Less(x, y) ==
    /\ ~IsNaN(x)
    /\ ~IsNaN(y)
    /\ x # y
    /\ IF ~IsFinite(x) THEN x = NegInf
       ELSE IF ~IsFinite(y) THEN y = PosInf
       ELSE LET g == GCD(x[2], y[2])
            IN  x[1] * (y[2] \div g) < y[1] * (x[2] \div g)

LessEq(x, y) == ~IsNaN(x) /\ ~IsNaN(y) /\ (x = y \/ Less(x, y))

-----------------------------------------------------------------------------
(* pandas / numpy primitives used by the functions below.                  *)

\* Series.add(c): NaN stays NaN.
add(s, c) == [i \in DOMAIN s |-> Plus(s[i], c)]

\* Series.prod(), skipna=True: missing values are left out; the empty
\* product is 1.
RECURSIVE prod(_)
prod(s) ==
    IF s = <<>> THEN One
    ELSE LET n == Len(s)
             p == prod(SubSeq(s, 1, n - 1))
         IN  IF IsNaN(s[n]) THEN p ELSE Times(p, s[n])

\* Series.cumprod(), skipna=True: the running product steps over missing
\* values, and the result is NaN where the input is.
RECURSIVE CumprodFrom(_, _)
CumprodFrom(acc, s) ==
    IF s = <<>> THEN <<>>
    ELSE IF IsNaN(Head(s)) THEN <<NaN>> \o CumprodFrom(acc, Tail(s))
    ELSE LET a == Times(acc, Head(s)) IN <<a>> \o CumprodFrom(a, Tail(s))

cumprod(s) == CumprodFrom(One, s)

\* The larger of two values the way numpy.maximum does it (NaN wins).
Maximum(x, y) ==
    IF IsNaN(x) \/ IsNaN(y) THEN NaN ELSE IF Less(x, y) THEN y ELSE x

\* A slip: the first value throughout, the initial high never replaced.
MutFirstHigh(s) == [i \in DOMAIN s |-> s[1]]

\* numpy.maximum.accumulate
RECURSIVE maximum_accumulate(_)
maximum_accumulate(s) ==
    IF Len(s) <= 1 THEN s
    ELSE LET n == Len(s)
             m == maximum_accumulate(SubSeq(s, 1, n - 1))
         IN  Append(m, Maximum(m[n - 1], s[n]))

\* Series.replace(olds, new)
replace(s, olds, new) ==
    [i \in DOMAIN s |-> IF s[i] \in olds THEN new ELSE s[i]]

\* Series.min(), skipna=True: NaN for a series without observed values.
RECURSIVE min(_)
min(s) ==
    IF s = <<>> THEN NaN
    ELSE LET n == Len(s)
             m == min(SubSeq(s, 1, n - 1))
         IN  IF IsNaN(s[n]) THEN m
             ELSE IF IsNaN(m) \/ Less(s[n], m) THEN s[n] ELSE m

\* The values of s at the positions where the mask holds (boolean indexing).
RECURSIVE Where(_, _)
Where(s, mask) ==
    IF s = <<>> THEN <<>>
    ELSE LET n == Len(s)
             w == Where(SubSeq(s, 1, n - 1), SubSeq(mask, 1, n - 1))
         IN  IF mask[n] THEN Append(w, s[n]) ELSE w

\* s in ascending order (an insertion sort), missing values dropped.
RECURSIVE Insert(_, _)
Insert(sorted, x) ==
    IF sorted = <<>> THEN <<x>>
    ELSE IF LessEq(x, Head(sorted)) THEN <<x>> \o sorted
    ELSE <<Head(sorted)>> \o Insert(Tail(sorted), x)

RECURSIVE Sorted(_)
Sorted(s) ==
    IF s = <<>> THEN <<>>
    ELSE LET n == Len(s)
             t == Sorted(SubSeq(s, 1, n - 1))
         IN  IF IsNaN(s[n]) THEN t ELSE Insert(t, s[n])

\* Series.quantile(qn/qd), linear interpolation between the two order
\* statistics around position (n-1)*q; NaN for a series without values.
quantile(s, qn, qd) ==
    LET x == Sorted(s)
        n == Len(x)
        j == ((n - 1) * qn) \div qd
        g == Rat(((n - 1) * qn) % qd, qd)
    IN  IF n = 0 THEN NaN
        ELSE IF j + 2 > n THEN x[j + 1]
        ELSE Plus(x[j + 1], Times(g, Minus(x[j + 2], x[j + 1])))

-----------------------------------------------------------------------------
(* stats.py                                                                *)

\* The sum of the observed values of s.
RECURSIVE SumOf(_)
SumOf(s) ==
    IF s = <<>> THEN Zero
    ELSE LET n == Len(s)
             t == SumOf(SubSeq(s, 1, n - 1))
         IN  IF IsNaN(s[n]) THEN t ELSE Plus(t, s[n])

\* A slip: the running sum of the returns instead of the compounded curve.
MutCompsumAdditive(rets) ==
    [i \in DOMAIN rets |->
        IF IsNaN(rets[i]) THEN NaN ELSE SumOf(SubSeq(rets, 1, i))]

\* Calculates rolling compounded returns
compsum(rets) == add(cumprod(add(rets, One)), Neg(One))

\* Calculates total compounded returns
comp(rets) == Minus(prod(add(rets, One)), One)

\* A slip: <= in place of <.
MutRemoveOutliersInclusive(rets, qn, qd) ==
    LET q == quantile(rets, qn, qd)
    IN  Where(rets, [i \in DOMAIN rets |-> LessEq(rets[i], q)])

\* Returns series of returns without the outliers:
\* returns[returns < returns.quantile(quantile)], the quantile being qn/qd.
remove_outliers(rets, qn, qd) ==
    LET q == quantile(rets, qn, qd)
    IN  Where(rets, [i \in DOMAIN rets |-> Less(rets[i], q)])

\* utils._prepare_prices applied to a return series: the equity curve, the
\* running product of (1 + r).
prepare_prices(rets) == cumprod(add(rets, One))

\* The largest value of s.
RECURSIVE Largest(_)
Largest(s) ==
    IF Len(s) = 1 THEN s[1]
    ELSE Maximum(Largest(SubSeq(s, 1, Len(s) - 1)), s[Len(s)])

\* A slip: the drawdown from the highest price of the whole series instead
\* of the highest price so far.
MutDrawdownFromGlobalHigh(rets) ==
    LET prices == prepare_prices(rets)
        dd == [i \in DOMAIN prices |->
                  Minus(Over(prices[i], Largest(prices)), One)]
    IN  replace(dd, {PosInf, NegInf, Zero}, Zero)

\* Convert returns series to drawdown series
to_drawdown_series(rets) ==
    LET prices == prepare_prices(rets)
        peak == maximum_accumulate(prices)
        dd == [i \in DOMAIN prices |-> Minus(Over(prices[i], peak[i]), One)]
    IN  replace(dd, {PosInf, NegInf, Zero}, Zero)

\* Series.expanding(min_periods=0).max(): at each position the largest of
\* the values observed so far, NaN while none has been observed.
RECURSIVE expanding_max(_)
expanding_max(s) ==
    IF s = <<>> THEN <<>>
    ELSE LET n == Len(s)
             m == expanding_max(SubSeq(s, 1, n - 1))
             before == IF n = 1 THEN NaN ELSE m[n - 1]
         IN  Append(m, IF IsNaN(s[n]) THEN before
                       ELSE IF IsNaN(before) \/ Less(before, s[n]) THEN s[n]
                       ELSE before)

\* A slip: the lowest ratio of a price to its running high, the 1 never
\* taken off.
MutMaxDrawdownRatio(prices) ==
    LET p == prepare_prices(prices)
        high == expanding_max(p)
    IN  min([i \in DOMAIN p |-> Over(p[i], high[i])])

\* Calculates the maximum drawdown
max_drawdown(prices) ==
    LET p == prepare_prices(prices)
        high == expanding_max(p)
    IN  Minus(min([i \in DOMAIN p |-> Over(p[i], high[i])]), One)

\* Series.shift(1) of a boolean series: the first entry is missing ({}),
\* entry i holds the value of entry i-1.
shift(b) == [i \in DOMAIN b |-> IF i = 1 THEN {} ELSE {b[i - 1]}]

\* x & y for a boolean x and a shifted entry y: a missing y counts as False.
AndShifted(x, y) == x /\ (TRUE \in y)

\* list(mask[mask].index): the timestamps at which the mask holds, in order.
RECURSIVE IndexWhere(_, _)
IndexWhere(idx, mask) ==
    IF idx = <<>> THEN <<>>
    ELSE LET n == Len(idx)
             w == IndexWhere(SubSeq(idx, 1, n - 1), SubSeq(mask, 1, n - 1))
         IN  IF mask[n] THEN Append(w, idx[n]) ELSE w

\* mark no drawdown
no_dd(dd) == [i \in DOMAIN dd |-> dd[i] = Zero]

Not(b) == [i \in DOMAIN b |-> ~b[i]]

\* extract dd start dates: starts = ~no_dd & no_dd.shift(1)
DetectedStarts(idx, dd) ==
    LET nd == no_dd(dd)
        sh == shift(nd)
    IN  IndexWhere(idx, [i \in DOMAIN dd |-> AndShifted(~nd[i], sh[i])])

\* extract end dates: ends = no_dd & (~no_dd).shift(1)
DetectedEnds(idx, dd) ==
    LET nd == no_dd(dd)
        sh == shift(Not(nd))
    IN  IndexWhere(idx, [i \in DOMAIN dd |-> AndShifted(nd[i], sh[i])])

\* A slip: the start of a series that begins in a drawdown is not added.
MutNoFixStarts(idx, starts, ends) == starts

\* drawdown series begins in a drawdown:
\* if ends and starts[0] > ends[0]: starts.insert(0, drawdown.index[0])
FixStarts(idx, starts, ends) ==
    IF ends # <<>> /\ starts[1] > ends[1]
    THEN <<idx[1]>> \o starts
    ELSE starts

\* series ends in a drawdown fill with last date:
\* if not ends or starts[-1] > ends[-1]: ends.append(drawdown.index[-1])
FixEnds(idx, starts, ends) ==
    IF ends = <<>> \/ starts[Len(starts)] > ends[Len(ends)]
    THEN Append(ends, idx[Len(idx)])
    ELSE ends

\* drawdown[start:end]: a slice by labels takes both ends in.
InSlice(idx, start, end) == [i \in DOMAIN idx |-> start <= idx[i] /\ idx[i] <= end]

\* A slip: the last occurrence of the minimum.
MutIdxminLast(idx, dd, mask) ==
    LET m == min(Where(dd, mask))
        p == CHOOSE i \in DOMAIN dd :
                /\ mask[i] /\ dd[i] = m
                /\ \A k \in (i + 1)..Len(dd) : ~(mask[k] /\ dd[k] = m)
    IN  idx[p]

\* Series.idxmin(): the timestamp of the first occurrence of the minimum.
idxmin(idx, dd, mask) ==
    LET m == min(Where(dd, mask))
        p == CHOOSE i \in DOMAIN dd :
                /\ mask[i] /\ dd[i] = m
                /\ \A k \in 1..(i - 1) : ~(mask[k] /\ dd[k] = m)
    IN  idx[p]

\* -series
NegSeries(s) == [i \in DOMAIN s |-> Neg(s[i])]

Hundred == Rat(100, 1)

\* A slip: 'days' counted in observations, not in calendar days.
MutEpisodeObservationDays(idx, dd, start, end) ==
    LET mask == InSlice(idx, start, end)
        win == Where(dd, mask)
        clean_dd == NegSeries(remove_outliers(NegSeries(win), 99, 100))
    IN  [start |-> start,
         valley |-> idxmin(idx, dd, mask),
         end |-> end,
         days |-> Len(win) - 1,
         maxdd |-> Times(min(win), Hundred),
         maxdd99 |-> Times(min(clean_dd), Hundred)]

\* One row of the result for the window from start to end.
Episode(idx, dd, start, end) ==
    LET mask == InSlice(idx, start, end)
        win == Where(dd, mask)
        clean_dd == NegSeries(remove_outliers(NegSeries(win), 99, 100))
    IN  [start |-> start,
         valley |-> idxmin(idx, dd, mask),
         end |-> end,
         days |-> end - start,
         maxdd |-> Times(min(win), Hundred),
         maxdd99 |-> Times(min(clean_dd), Hundred)]

Ok(rows) == [error |-> FALSE, rows |-> rows]
Raised == [error |-> TRUE, rows |-> <<>>]

\* The fix-ups at the two ends of the series and the loop that builds one
\* row per start; Raised where the Python raises.
BuildRows(idx, dd, starts0, ends0) ==
    LET starts == FixStarts(idx, starts0, ends0)
        ends == FixEnds(idx, starts, ends0)
    IN  IF \E i \in DOMAIN starts :
              \/ i > Len(ends)                    \* ends[i]: IndexError
              \/ starts[i] > ends[i]              \* idxmin of an empty slice
        THEN Raised
        ELSE Ok([i \in DOMAIN starts |-> Episode(idx, dd, starts[i], ends[i])])

\* A slip: no early return for "no drawdown"; the fix-ups and the date
\* formatting that follow then work on empty lists and raise.
MutDetailsNoEarlyReturn(idx, dd) ==
    LET starts0 == DetectedStarts(idx, dd)
        ends0 == DetectedEnds(idx, dd)
    IN  IF starts0 = <<>> THEN Raised
        ELSE BuildRows(idx, dd, starts0, ends0)

\* Calculates drawdown details for a Series: the rows of the DataFrame it
\* returns, or the fact that it raised.
drawdown_details(idx, dd) ==
    LET starts0 == DetectedStarts(idx, dd)
        ends0 == DetectedEnds(idx, dd)
    IN  IF starts0 = <<>> THEN Ok(<<>>)     \* no drawdown :)
        ELSE BuildRows(idx, dd, starts0, ends0)

-----------------------------------------------------------------------------
(* The ratios.  A ratio divides by a standard deviation, a square root the *)
(* rationals do not hold: such a value is kept exactly, as its sign and    *)
(* its square.                                                             *)

\* The value held by a variable that holds one.
The(S) == CHOOSE x \in S : TRUE

\* What a call gives back: a value, or the exception it raises.
Value(v) == [raised |-> FALSE, value |-> v]
Failure(what) == [raised |-> TRUE, value |-> what]

\* periods=None, and periods=p.
None == {}
Some(p) == {p}

\* Series.mean(): NaN for a series without values.
mean(s) == IF s = <<>> THEN NaN ELSE Over(SumOf(s), Rat(Len(s), 1))

Square(x) == Times(x, x)

\* Series.std(ddof=1), squared: NaN for fewer than two values.
variance(s) ==
    IF Len(s) < 2 THEN NaN
    ELSE LET m == mean(s)
         IN  Over(SumOf([i \in DOMAIN s |-> Square(Minus(s[i], m))]),
                  Rat(Len(s) - 1, 1))

\* x / sqrt(y2) in floating point: NaN when either is, an infinity of the
\* sign of x when y2 is 0.
OverSqrt(x, y2) ==
    LET q == Over(Square(x), y2)
    IN  [sign |-> IF IsNaN(q) THEN 0 ELSE Sign(x[1]), sq |-> q]

\* v * sqrt(k) for a whole number k >= 1.
TimesSqrt(v, k) == [sign |-> v.sign, sq |-> Times(v.sq, Rat(k, 1))]

RECURSIVE Power(_, _)
Power(x, k) ==
    IF k = 0 THEN One
    ELSE IF k % 2 = 0 THEN Square(Power(x, k \div 2))
    ELSE Times(Power(x, k - 1), x)

\* Rates per period the inputs de-annualize to exactly.
Rates == {Rat(0, 1), Rat(1, 2), Rat(5, 4)}

\* The rate y per period of the annual rate rf: (1 + y)^periods = 1 + rf.
PerPeriod(rf, periods) ==
    IF periods = None THEN rf
    ELSE CHOOSE y \in Rates : Power(Plus(One, y), The(periods)) = Plus(One, rf)

\* utils._prepare_returns on a series of returns: infinities become 0, and
\* a risk-free rate other than 0 is taken off every return, per period.
prepare_returns(rets, rf, periods) ==
    LET data == replace(rets, {PosInf, NegInf}, Zero)
    IN  IF rf # Zero THEN add(data, Neg(PerPeriod(rf, periods))) ELSE data

\* returns[returns < 0]
Negatives(rets) == Where(rets, [i \in DOMAIN rets |-> Less(rets[i], Zero)])

\* A slip: the downside deviation over the number of losses.
MutDownsidePerLoss(rets) ==
    Over(SumOf([i \in DOMAIN Negatives(rets) |-> Square(Negatives(rets)[i])]),
         Rat(Len(Negatives(rets)), 1))

\* downside = sqrt((returns[returns < 0] ** 2).sum() / len(returns)),
\* squared.
downside2(rets) ==
    Over(SumOf([i \in DOMAIN Negatives(rets) |-> Square(Negatives(rets)[i])]),
         Rat(Len(rets), 1))

\* res * sqrt(1 if periods is None else periods), if annualize.
Annualized(res, periods, annualize) ==
    IF annualize
    THEN TimesSqrt(res, IF periods = None THEN 1 ELSE The(periods))
    ELSE res

\* A slip: the argument check left out of sharpe.
MutSharpeNoCheck(rets, rf, periods, annualize) ==
    LET r == prepare_returns(rets, rf, periods)
    IN  Value(Annualized(OverSqrt(mean(r), variance(r)), periods, annualize))

\* Calculates the sharpe ratio of access returns (smart=False).
sharpe(rets, rf, periods, annualize) ==
    IF rf # Zero /\ periods = None
    THEN Failure("Must provide periods if rf != 0")
    ELSE LET r == prepare_returns(rets, rf, periods)
         IN  Value(Annualized(OverSqrt(mean(r), variance(r)),
                              periods, annualize))

\* Calculates the sortino ratio of access returns (smart=False).
sortino(rets, rf, periods, annualize) ==
    IF rf # Zero /\ periods = None
    THEN Failure("Must provide periods if rf != 0")
    ELSE LET r == prepare_returns(rets, rf, periods)
         IN  Value(Annualized(OverSqrt(mean(r), downside2(r)),
                              periods, annualize))

\* The window of rolling_period values that ends at position i.
Window(rets, rolling_period, i) == SubSeq(rets, i - rolling_period + 1, i)

\* returns.rolling(rolling_period).apply(
\*     lambda x: (x.values[x.values < 0]**2).sum()) / rolling_period
RollingDownside2(rets, rolling_period, i) ==
    LET neg == Negatives(Window(rets, rolling_period, i))
    IN  Over(SumOf([k \in DOMAIN neg |-> Square(neg[k])]),
             Rat(rolling_period, 1))

\* rolling_sortino for a rolling_period that is given: one ratio per full
\* window, NaN before the first full window.
rolling_sortino(rets, rf, rolling_period, annualize, periods_per_year) ==
    LET r == prepare_returns(rets, rf, Some(rolling_period))
    IN  Value([i \in DOMAIN r |->
                 IF i < rolling_period THEN OverSqrt(NaN, NaN)
                 ELSE Annualized(
                          OverSqrt(mean(Window(r, rolling_period, i)),
                                   RollingDownside2(r, rolling_period, i)),
                          periods_per_year, annualize)])

-----------------------------------------------------------------------------
(* omega, value_at_risk and conditional_value_at_risk.                     *)

\* return_threshold: required_return if periods is 1, else
\* (1 + required_return) ** (1 / periods) - 1, the rate y per period with
\* (1 + y)^periods = 1 + required_return; the calls with another period
\* count have the rate 0.
return_threshold(required_return, periods) ==
    IF periods = 1 THEN required_return
    ELSE CHOOSE y \in {Zero} :
             Power(Plus(One, y), periods) = Plus(One, required_return)

\* Determines the Omega ratio of a strategy, handed a Series (frame FALSE)
\* or a DataFrame of one column; .sum() of a Series is a number, which has
\* no attribute 'values'.
omega(rets, frame, rf, required_return, periods) ==
    IF Len(rets) < 2 THEN Value(NaN)
    ELSE IF LessEq(required_return, Neg(One)) THEN Value(NaN)
    ELSE LET r == prepare_returns(rets, rf, Some(periods))
             returns_less_thresh ==
                 add(r, Neg(return_threshold(required_return, periods)))
             numer == SumOf(Where(returns_less_thresh,
                          [i \in DOMAIN r |->
                              Less(Zero, returns_less_thresh[i])]))
             denom == Neg(SumOf(Where(returns_less_thresh,
                          [i \in DOMAIN r |->
                              Less(returns_less_thresh[i], Zero)])))
         IN  IF ~frame THEN Failure("AttributeError")
             ELSE IF Less(Zero, denom) THEN Value(Over(numer, denom))
             ELSE Value(NaN)

\* _norm.ppf(q), squared, for the probabilities below 1/2 the calls use:
\* the normal quantile is -1.644854 at 0.05 and -0.841621 at 0.2.
NormPpf2(q) ==
    CASE q = Rat(1, 20) -> Rat(27055, 10000)
      [] q = Rat(1, 5) -> Rat(7083, 10000)
      [] OTHER -> NaN

\* The number mu - sqrt(spread2), a rational number when spread2 is 0.
Number(mu, spread2) ==
    IF IsNaN(mu) \/ IsNaN(spread2)
    THEN [nan |-> TRUE, mu |-> NaN, spread2 |-> NaN]
    ELSE [nan |-> FALSE, mu |-> mu, spread2 |-> spread2]

\* Calculats the daily value-at-risk: _norm.ppf(1 - confidence, mu, sigma),
\* which is mu - sqrt(spread2) for a confidence above 1/2 and sigma > 0,
\* and NaN for sigma = 0.
value_at_risk(rets, sigma, confidence, prepare) ==
    LET r == IF prepare THEN prepare_returns(rets, Zero, None) ELSE rets
        sigma2 == Times(Square(sigma), variance(r))
        c == IF Less(One, confidence)
             THEN Over(confidence, Hundred) ELSE confidence
    IN  IF sigma2 = Zero THEN Number(NaN, NaN)
        ELSE Number(mean(r), Times(NormPpf2(Minus(One, c)), sigma2))

\* x < var, for var = mu - sqrt(spread2).
BelowVar(x, var) ==
    /\ ~var.nan
    /\ Less(x, var.mu)
    /\ Less(var.spread2, Square(Minus(var.mu, x)))

\* returns[returns < var].values.mean()
MeanBelow(r, var) ==
    mean(Where(r, [i \in DOMAIN r |-> BelowVar(r[i], var)]))

\* A slip: no fall-back to the value-at-risk.
MutCvarNoFallback(rets, sigma, confidence, prepare) ==
    LET r == IF prepare THEN prepare_returns(rets, Zero, None) ELSE rets
    IN  Number(MeanBelow(r, value_at_risk(r, sigma, confidence, TRUE)), Zero)

\* Calculats the conditional daily value-at-risk: the mean of the returns
\* below the value-at-risk, the value-at-risk if that mean is NaN.
conditional_value_at_risk(rets, sigma, confidence, prepare) ==
    LET r == IF prepare THEN prepare_returns(rets, Zero, None) ELSE rets
        var == value_at_risk(r, sigma, confidence, TRUE)
        c_var == MeanBelow(r, var)
    IN  IF ~IsNaN(c_var) THEN Number(c_var, Zero) ELSE var

-----------------------------------------------------------------------------
(* The calendar.  Day 1 is Wednesday 2020-01-01; 2020 is a leap year.      *)

\* The last day of each month from January 2020 to January 2021.
MonthEnds == <<31, 60, 91, 121, 152, 182, 213, 244, 274, 305, 335, 366, 397>>

\* The month of a day, counted from January 2020 = 1.
MonthOf(d) == 1 + Cardinality({m \in DOMAIN MonthEnds : MonthEnds[m] < d})

QuarterOf(d) == ((MonthOf(d) - 1) \div 3) + 1
YearOf(d) == ((MonthOf(d) - 1) \div 12) + 1

\* The week of a day for the frequency 'W-MON': weeks that end on a Monday
\* (day 6 is Monday 2020-01-06), Tuesday to Monday.
WeekEndingMonday(d) == ((d - 7) \div 7) + 1

\* The bin of a day under a resampling frequency.
BucketOf(freq, d) ==
    CASE freq = "W-MON" -> WeekEndingMonday(d)
      [] freq = "M" -> MonthOf(d)
      [] freq = "Q" -> QuarterOf(d)
      [] freq = "A" -> YearOf(d)

-----------------------------------------------------------------------------
(* distribution and monthly_returns.  The caller's object is a Series (one *)
(* column of values, no column names) or a DataFrame; a column name is a   *)
(* string or some other label.                                             *)

Str(text) == [str |-> TRUE, text |-> text]
Label(text) == [str |-> FALSE, text |-> text]

\* str.lower
lower(text) ==
    CASE text = "Close" -> "close"
      [] text = "Open" -> "open"
      [] OTHER -> text

\* The objects of a call: the caller's table and a local one, and the one
\* of the two the name 'returns' is bound to.
Bind(tbl) == [caller |-> tbl, local |-> tbl, at |-> "caller"]

\* A slip: no copy, the name stays bound to the caller's object.
MutNoCopy(h) == h

\* returns = returns.copy()
copy(h) == [h EXCEPT !.local = h[h.at], !.at = "local"]

\* returns.columns = map(str.lower, returns.columns), on the object the name
\* is bound to.
LowerColumns(h) ==
    [h EXCEPT ![h.at].columns =
        [c \in DOMAIN h[h.at].columns |-> Str(lower(h[h.at].columns[c].text))]]

\* The positions of the columns named name.
Named(tbl, name) == {c \in DOMAIN tbl.columns : tbl.columns[c].text = name}

\* returns['close'] if there are several columns and 'close' is one of
\* them, else returns[returns.columns[0]]: the columns of that name.
Selected(tbl) ==
    IF Len(tbl.columns) > 1 /\ Named(tbl, "close") # {}
    THEN Named(tbl, "close")
    ELSE Named(tbl, tbl.columns[1].text)

\* Lines 66-74 and 946-954: the objects after the DataFrame branch, whether
\* a warning was given, the columns taken and the series to go on with.
\* str.lower raises TypeError on a label that is not a string; a name that
\* several columns bear selects them all, a DataFrame again, on which the
\* rest of either function raises.
TakeColumn(tbl) ==
    IF ~tbl.frame
    THEN [heap |-> Bind(tbl), warned |-> FALSE, picked |-> {1},
          series |-> Value(tbl.data[1])]
    ELSE LET h == copy(Bind(tbl))
         IN  IF \E c \in DOMAIN tbl.columns : ~tbl.columns[c].str
             THEN [heap |-> h, warned |-> TRUE, picked |-> {},
                   series |-> Failure("TypeError")]
             ELSE LET w == LowerColumns(h)
                      cols == Selected(w[w.at])
                  IN  [heap |-> w, warned |-> TRUE, picked |-> cols,
                       series |->
                           IF Cardinality(cols) = 1
                           THEN Value(tbl.data[CHOOSE c \in cols : TRUE])
                           ELSE Failure("DataFrame")]

\* get_outliers: the values within 1.5 IQR of the quartiles, and the rest.
get_outliers(data) ==
    LET Q1 == quantile(data, 1, 4)
        Q3 == quantile(data, 3, 4)
        IQR == Minus(Q3, Q1)
        lo == Minus(Q1, Times(Rat(3, 2), IQR))
        hi == Plus(Q3, Times(Rat(3, 2), IQR))
        filtered == [i \in DOMAIN data |->
                        LessEq(lo, data[i]) /\ LessEq(data[i], hi)]
    IN  [values |-> Where(data, filtered),
         outliers |-> Where(data, Not(filtered))]

\* A slip: the sum whatever compounded is.
MutApplySum(compounded, s) == SumOf(s)

\* apply_fnc = comp if compounded else _np.sum
apply_fnc(compounded, s) == IF compounded THEN comp(s) ELSE SumOf(s)

\* Series.dropna(): the observed values and their timestamps.
Observed(s) == [i \in DOMAIN s |-> ~IsNaN(s[i])]

\* daily.resample(freq).apply(apply_fnc): one bin for each period from that
\* of the first timestamp to that of the last, with the timestamps in it
\* and apply_fnc of their values, those of no timestamp included.
Resample(idx, vals, freq, compounded) ==
    IF idx = <<>> THEN <<>>
    ELSE LET first == BucketOf(freq, idx[1])
             last == BucketOf(freq, idx[Len(idx)])
         IN  [k \in 1..(last - first + 1) |->
                 LET inBin == [i \in DOMAIN idx |->
                               BucketOf(freq, idx[i]) = first + k - 1]
                 IN  [bucket |-> first + k - 1,
                      days |-> IndexWhere(idx, inBin),
                      value |-> apply_fnc(compounded, Where(vals, inBin))]]

ValuesOf(bins) == [k \in DOMAIN bins |-> bins[k].value]

\* distribution: the caller's object after the call, the warning, the
\* columns taken, the resampled series and the result.
distribution(tbl, compounded, prepare) ==
    LET t == TakeColumn(tbl)
    IN  IF t.series.raised
        THEN [caller |-> t.heap.caller, warned |-> t.warned,
              picked |-> t.picked, resampled |-> <<>>, res |-> t.series]
        ELSE LET rets == t.series.value
                 idx == IndexWhere(tbl.index, Observed(rets))
                 dropped == Where(rets, Observed(rets))
                 daily == IF prepare
                          THEN prepare_returns(dropped, Zero, None)
                          ELSE dropped
                 weekly == Resample(idx, daily, "W-MON", compounded)
                 monthly == Resample(idx, daily, "M", compounded)
                 quarterly == Resample(idx, daily, "Q", compounded)
                 yearly == Resample(idx, daily, "A", compounded)
             IN  [caller |-> t.heap.caller, warned |-> t.warned,
                  picked |-> t.picked,
                  resampled |-> [Weekly |-> weekly, Monthly |-> monthly,
                                 Quarterly |-> quarterly, Yearly |-> yearly],
                  res |-> Value([Daily |-> get_outliers(daily),
                                 Weekly |-> get_outliers(ValuesOf(weekly)),
                                 Monthly |-> get_outliers(ValuesOf(monthly)),
                                 Quarterly |-> get_outliers(ValuesOf(quarterly)),
                                 Yearly |-> get_outliers(ValuesOf(yearly))])]

\* The numbers of s in ascending order, each once.
RECURSIVE Ascending(_)
Ascending(S) ==
    IF S = {} THEN <<>>
    ELSE LET m == CHOOSE x \in S : \A y \in S : x <= y
         IN  <<m>> \o Ascending(S \ {m})

\* utils.group_returns(returns, groupby, compounded): one value for each
\* group that has a timestamp, in the order of the groups.
group_returns(idx, vals, freq, compounded) ==
    LET groups == Ascending({BucketOf(freq, idx[i]) : i \in DOMAIN idx})
    IN  [g \in DOMAIN groups |->
            [bucket |-> groups[g],
             value |-> apply_fnc(compounded,
                          Where(vals, [i \in DOMAIN idx |->
                                          BucketOf(freq, idx[i]) = groups[g]]))]]

\* The months of a year.
Months == 1..12

\* monthly_returns with eoy=False (the yearly column comes from
\* utils.group_returns called without 'compounded'): the caller's object
\* after the call, the warning, the columns taken and the table of one row
\* for each year with a timestamp and one cell for each month, 0 for a month
\* without one.
monthly_returns(tbl, compounded, prepare) ==
    LET t == TakeColumn(tbl)
    IN  IF t.series.raised
        THEN [caller |-> t.heap.caller, warned |-> t.warned,
              picked |-> t.picked, res |-> t.series]
        ELSE LET rets == IF prepare
                         THEN prepare_returns(t.series.value, Zero, None)
                         ELSE t.series.value
                 grouped == group_returns(tbl.index, rets, "M", compounded)
                 years == Ascending({YearOf(tbl.index[i]) :
                                        i \in DOMAIN tbl.index})
                 cell(y, m) ==
                     LET hit == {g \in DOMAIN grouped :
                                    grouped[g].bucket = (y - 1) * 12 + m}
                     IN  IF hit = {} \/ IsNaN(grouped[CHOOSE g \in hit : TRUE].value)
                         THEN Zero
                         ELSE grouped[CHOOSE g \in hit : TRUE].value
             IN  [caller |-> t.heap.caller, warned |-> t.warned,
                  picked |-> t.picked,
                  res |-> Value([years |-> years,
                                 cells |-> [y \in DOMAIN years |->
                                              [m \in Months |-> cell(years[y], m)]]])]

-----------------------------------------------------------------------------
(* match_dates and the input stage of metrics.  A Series is a table with   *)
(* frame = FALSE and its values in data[1]; the two series handed to       *)
(* match_dates share one index and are not empty.                          *)

\* Series.ne(v): True where the value differs from v (a NaN differs).
ne(s, v) == [i \in DOMAIN s |-> s[i] # v]

\* Series.idxmax() of a boolean series: the label of the first True, the
\* first label when no entry is True.
idxmax(idx, mask) ==
    IF \E i \in DOMAIN mask : mask[i]
    THEN idx[CHOOSE i \in DOMAIN mask :
                mask[i] /\ \A k \in 1..(i - 1) : ~mask[k]]
    ELSE idx[1]

\* The later of two timestamps.
max(a, b) == IF a < b THEN b ELSE a

\* s.loc[t:], the observations of s from the label t on.
LocFrom(s, t) ==
    LET keep == [i \in DOMAIN s.index |-> s.index[i] >= t]
    IN  [s EXCEPT !.index = Where(s.index, keep),
                  !.data = <<Where(s.data[1], keep)>>]

\* The first timestamp of s with a value other than 0, as idxmax finds it.
FirstNonZero(s) == idxmax(s.index, ne(s.data[1], Zero))

\* A slip the text of line 998 invites: the benchmark cut at the date the
\* returns were cut at.
MutMatchCommonStart(rets, benchmark) ==
    LET t == max(FirstNonZero(rets), FirstNonZero(benchmark))
    IN  <<LocFrom(rets, t), LocFrom(benchmark, t)>>

\* match_dates: returns is rebound to its cut before the benchmark's cut is
\* computed from returns.ne(0).idxmax() once more.
match_dates(rets, benchmark) ==
    LET r == LocFrom(rets, max(FirstNonZero(rets), FirstNonZero(benchmark)))
        b == LocFrom(benchmark,
                     max(FirstNonZero(r), FirstNonZero(benchmark)))
    IN  <<r, b>>

\* The Series of column c of a DataFrame.
ColumnOf(tbl, c) ==
    [frame |-> FALSE, columns |-> <<>>, index |-> tbl.index,
     data |-> <<tbl.data[c]>>]

\* utils._prepare_benchmark for a benchmark handed over as data on the index
\* of returns: its series (the column of a table), prepared as returns are.
prepare_benchmark(benchmark, idx, rf) ==
    LET s == IF benchmark.frame THEN ColumnOf(benchmark, 1) ELSE benchmark
    IN  [s EXCEPT !.data = <<prepare_returns(s.data[1], rf, None)>>]

\* Series.fillna(0)
fillna(s) == replace(s, {NaN}, Zero)

\* df[column] = s: the values of s on the labels of df's index, NaN on a
\* label s does not have.
Align(idx, s) ==
    [i \in DOMAIN idx |->
        IF \E k \in DOMAIN s.index : s.index[k] = idx[i]
        THEN s.data[1][CHOOSE k \in DOMAIN s.index : s.index[k] = idx[i]]
        ELSE NaN]

\* What a call of metrics leaves: raised with the error's type and nothing
\* printed, or the frame df its report is computed from, printed or
\* returned.
Rejected(what) == [raised |-> TRUE, value |-> what, printed |-> FALSE]
Produced(df, display) == [raised |-> FALSE, value |-> df, printed |-> display]

\* metrics from "returns = returns[returns.columns[0]]" on: the frame df of
\* the prepared returns and, when given, the prepared benchmark, with the
\* missing values filled by 0.  The rows of the report are functions of df
\* and are left out; with display the report is printed, else returned.
ReportOn(rets, benchmark, display, match) ==
    LET one == IF rets.frame THEN ColumnOf(rets, 1) ELSE rets
        r == [one EXCEPT !.data = <<prepare_returns(one.data[1], Zero, None)>>]
    IN  IF benchmark = None
        THEN Produced([index |-> r.index, returns |-> fillna(r.data[1]),
                       benchmark |-> None], display)
        ELSE LET b == prepare_benchmark(The(benchmark), r.index, Zero)
                 m == IF match THEN match_dates(r, b) ELSE <<r, b>>
             IN  Produced([index |-> r.index,
                           returns |-> fillna(Align(r.index, m[1])),
                           benchmark |-> Some(fillna(Align(r.index, m[2])))],
                          display)

\* A slip: no check of the shapes, the first column taken.
MutMetricsNoCheck(rets, benchmark, display, match) ==
    ReportOn(rets, benchmark, display, match)

\* metrics(returns, benchmark, display=display, match_dates=match), the
\* other arguments at their defaults; benchmark is None or data, a benchmark
\* named by a ticker being fetched elsewhere.
metrics(rets, benchmark, display, match) ==
    IF benchmark # None /\ The(benchmark).frame
       /\ Len(The(benchmark).columns) > 1
    THEN Rejected("ValueError")
    ELSE IF rets.frame /\ Len(rets.columns) > 1
    THEN Rejected("ValueError")
    ELSE ReportOn(rets, benchmark, display, match)

-----------------------------------------------------------------------------
(* The inputs.                                                             *)

\* Values a return takes in the general inputs: all above -1, with 1/2 and
\* 2 as growth factors so that the equity curve can come back to a former
\* high exactly; NaN marks a missing observation.
RetVals == {Rat(-1, 2), Rat(0, 1), Rat(1, 4), Rat(1, 1)}

\* Values of a return in the series handed to the ratio and risk calls: a
\* loss, a flat period and a gain.
SampleVals == {Rat(-1, 2), Rat(0, 1), Rat(1, 4)}

\* The default number of periods in a year.
PeriodsPerYear == 252

\* The (rf, periods) a ratio is called with: no risk-free rate, without and
\* with a period count, and the annual rate 5/4 without a period count, per
\* period (5/4) and per half year ((1 + 1/2)^2 = 1 + 5/4).
RateCalls ==
    {<<Zero, None>>, <<Zero, Some(PeriodsPerYear)>>,
     <<Rat(5, 4), None>>, <<Rat(5, 4), Some(1)>>, <<Rat(5, 4), Some(2)>>}

\* The (rf, rolling_period) rolling_sortino is called with.
RollingCalls == {<<Zero, 1>>, <<Zero, 2>>, <<Rat(5, 4), 2>>}

\* The (required_return, periods) omega is called with, the threshold per
\* period being exact: (1 + 0)^(1/252) - 1 = 0, and required_return itself
\* when periods is 1.
OmegaCalls ==
    {<<Zero, PeriodsPerYear>>, <<Rat(1, 4), 1>>, <<Rat(-1, 2), 1>>,
     <<Rat(-1, 1), PeriodsPerYear>>}

\* The (sigma, confidence) the value-at-risk is asked at: the default 0.95,
\* the same written 95, and 0.8.
RiskCalls ==
    {<<One, Rat(95, 100)>>, <<One, Rat(95, 1)>>, <<One, Rat(4, 5)>>}

\* Values of a drawdown series handed to drawdown_details directly.
DDVals == {Rat(0, 1), Rat(-1, 10), Rat(-1, 5), Rat(-1, 2)}

\* The sequences of length n over S.
SeqsOf(S, n) == [1..n -> S]

\* The strictly increasing sequences of n days out of 1..MaxDay.
Indexes(n) ==
    {ix \in [1..n -> 1..MaxDay] : \A i \in 1..(n - 1) : ix[i] < ix[i + 1]}

\* The first n days.  comp, compsum and to_drawdown_series never read the
\* index, so the return series are drawn on consecutive days; the gaps are in
\* the drawdown series handed to drawdown_details.
Consecutive(n) == [i \in 1..n |-> i]

\* The scenario of five consecutive days from 2020-01-01 (day 1):
\* returns 0.01, -0.02, 0.03, -0.05, 0.01.
ScenarioIndex == <<1, 2, 3, 4, 5>>
ScenarioReturns ==
    <<Rat(1, 100), Rat(-2, 100), Rat(3, 100), Rat(-5, 100), Rat(1, 100)>>

Complete(s) == \A i \in DOMAIN s : ~IsNaN(s[i])

\* Days a series handed to distribution or monthly_returns may have an
\* observation on: Monday 2020-11-30, Sunday 2020-12-27, Monday 2020-12-28,
\* Tuesday 2020-12-29 and Friday 2021-01-01.  They span six weeks, three
\* months, two quarters and two years, with weeks and a month in between
\* that may stay empty.
DistDays == {335, 362, 363, 364, 367}

\* Values of that series: a loss, a gain, and a missing observation.
TableVals == {Rat(-1, 2), Rat(1, 4), NaN}

\* The Series of n observations on those days, at least one not missing.
SeriesTables(n) ==
    {[frame |-> FALSE, columns |-> <<>>, index |-> ix, data |-> <<v>>] :
        ix \in {x \in [1..n -> DistDays] :
                   \A i \in 1..(n - 1) : x[i] < x[i + 1]},
        v \in {y \in SeqsOf(TableVals, n) : \E i \in 1..n : ~IsNaN(y[i])}}

\* Names of the columns of a DataFrame: strings, and a label that is not a
\* string (such as the 0 of a frame built without names).
ColumnNames == {Str("close"), Str("Close"), Str("Open"), Label("0")}

\* The DataFrames of one or two columns on Monday 2020-12-28 and Tuesday
\* 2020-12-29; the columns differ in their values.
FrameTables ==
    {[frame |-> TRUE, columns |-> cols, index |-> <<363, 364>>,
      data |-> SubSeq(<<<<Rat(1, 4), Rat(-1, 2)>>,
                        <<Rat(-1, 2), Rat(1, 4)>>>>, 1, Len(cols))] :
        cols \in SeqsOf(ColumnNames, 1) \cup SeqsOf(ColumnNames, 2)}

\* Values of the two series handed to match_dates and metrics: no return
\* and a gain.
MatchVals == {Rat(0, 1), Rat(1, 4)}

\* The Series of the values v on the first Len(v) days.
SeriesOn(v) ==
    [frame |-> FALSE, columns |-> <<>>, index |-> Consecutive(Len(v)),
     data |-> <<v>>]

\* The pairs (returns, benchmark) of Series of 1..MaxLen observations on one
\* index.
SeriesPairs ==
    UNION {{[returns |-> SeriesOn(r), benchmark |-> Some(SeriesOn(b))] :
               r \in SeqsOf(MatchVals, n), b \in SeqsOf(MatchVals, n)} :
           n \in 1..MaxLen}

\* A Series and the DataFrames of one and of two columns on two days; the
\* first column holds the values of the Series.
Shapes ==
    {SeriesOn(<<Rat(1, 4), Rat(0, 1)>>)} \cup
    {[frame |-> TRUE, columns |-> cols, index |-> Consecutive(2),
      data |-> SubSeq(<<<<Rat(1, 4), Rat(0, 1)>>,
                        <<Rat(0, 1), Rat(1, 4)>>>>, 1, Len(cols))] :
        cols \in {<<Str("returns")>>, <<Str("returns"), Str("other")>>}}

\* The (returns, benchmark) metrics is called with beyond the pairs of
\* Series: each shape of returns with no benchmark and with each shape of
\* benchmark.
ShapePairs ==
    {[returns |-> r, benchmark |-> b] :
        r \in Shapes, b \in {None} \cup {Some(s) : s \in Shapes}}

-----------------------------------------------------------------------------
(* The calls.  A run starts from a caller's return series, from a drawdown *)
(* series the caller hands to drawdown_details, from the series handed to  *)
(* a ratio or risk call, or from the Series or DataFrame handed to         *)
(* distribution or monthly_returns; each function is called once on it.    *)

InitReturns ==
    /\ \E n \in 0..MaxLen :
          /\ index = Consecutive(n)
          /\ returns \in {{r} : r \in SeqsOf(RetVals \cup {NaN}, n)}
    /\ drawdown = {}
    /\ sample = {}
    /\ table = {}
    /\ pair = {}

InitScenario ==
    /\ index = ScenarioIndex
    /\ returns = {ScenarioReturns}
    /\ drawdown = {}
    /\ sample = {}
    /\ table = {}
    /\ pair = {}

InitDrawdown ==
    /\ \E n \in 0..MaxLen :
          /\ index \in Indexes(n)
          /\ drawdown \in {{d} : d \in SeqsOf(DDVals, n)}
    /\ returns = {}
    /\ sample = {}
    /\ table = {}
    /\ pair = {}

\* A run of a ratio or risk call starts from the caller's series of at least
\* one return, none missing.
InitSample ==
    /\ \E n \in 1..MaxLen : sample \in {{s} : s \in SeqsOf(SampleVals, n)}
    /\ index = <<>>
    /\ returns = {}
    /\ drawdown = {}
    /\ table = {}
    /\ pair = {}

\* A run of distribution or monthly_returns starts from the caller's Series
\* or DataFrame.
InitTable ==
    /\ table \in {{t} : t \in FrameTables
                            \cup UNION {SeriesTables(n) : n \in 1..MaxLen}}
    /\ index = <<>>
    /\ returns = {}
    /\ drawdown = {}
    /\ sample = {}
    /\ pair = {}

\* A run of match_dates or metrics starts from the caller's returns and
\* benchmark.
InitPair ==
    /\ pair \in {{p} : p \in SeriesPairs \cup ShapePairs}
    /\ index = <<>>
    /\ returns = {}
    /\ drawdown = {}
    /\ sample = {}
    /\ table = {}

Init ==
    /\ (InitReturns \/ InitScenario \/ InitDrawdown \/ InitSample
        \/ InitTable \/ InitPair)
    /\ total = {}
    /\ curve = {}
    /\ details = {}
    /\ outcome = {}

\* total = comp(returns)
Comp ==
    /\ returns # {}
    /\ total = {}
    /\ total' = {comp(The(returns))}
    /\ UNCHANGED <<index, returns, curve, drawdown, details>>
    /\ UNCHANGED <<sample, table, outcome, pair>>

\* curve = compsum(returns)
Compsum ==
    /\ returns # {}
    /\ curve = {}
    /\ curve' = {compsum(The(returns))}
    /\ UNCHANGED <<index, returns, total, drawdown, details>>
    /\ UNCHANGED <<sample, table, outcome, pair>>

\* drawdown = to_drawdown_series(returns), for a return series without
\* missing observations.
ToDrawdownSeries ==
    /\ returns # {}
    /\ Complete(The(returns))
    /\ drawdown = {}
    /\ drawdown' = {to_drawdown_series(The(returns))}
    /\ UNCHANGED <<index, returns, total, curve, details>>
    /\ UNCHANGED <<sample, table, outcome, pair>>

\* details = drawdown_details(drawdown)
DrawdownDetails ==
    /\ drawdown # {}
    /\ details = {}
    /\ details' = {drawdown_details(index, The(drawdown))}
    /\ UNCHANGED <<index, returns, total, curve, drawdown>>
    /\ UNCHANGED <<sample, table, outcome, pair>>

\* outcome = sharpe(sample, rf, periods, annualize)
Sharpe ==
    /\ sample # {}
    /\ outcome = {}
    /\ \E c \in RateCalls, annualize \in BOOLEAN :
          outcome' = {[fn |-> "sharpe", rf |-> c[1], periods |-> c[2],
                       annualize |-> annualize,
                       res |-> sharpe(The(sample), c[1], c[2], annualize)]}
    /\ UNCHANGED <<index, returns, total, curve, drawdown, details>>
    /\ UNCHANGED <<sample, table, pair>>

\* outcome = sortino(sample, rf, periods, annualize)
Sortino ==
    /\ sample # {}
    /\ outcome = {}
    /\ \E c \in RateCalls, annualize \in BOOLEAN :
          outcome' = {[fn |-> "sortino", rf |-> c[1], periods |-> c[2],
                       annualize |-> annualize,
                       res |-> sortino(The(sample), c[1], c[2], annualize)]}
    /\ UNCHANGED <<index, returns, total, curve, drawdown, details>>
    /\ UNCHANGED <<sample, table, pair>>

\* outcome = rolling_sortino(sample, rf, rolling_period, annualize)
RollingSortino ==
    /\ sample # {}
    /\ outcome = {}
    /\ \E c \in RollingCalls, annualize \in BOOLEAN :
          outcome' = {[fn |-> "rolling_sortino", rf |-> c[1],
                       rolling_period |-> c[2], annualize |-> annualize,
                       res |-> rolling_sortino(The(sample), c[1], c[2],
                                   annualize, Some(PeriodsPerYear))]}
    /\ UNCHANGED <<index, returns, total, curve, drawdown, details>>
    /\ UNCHANGED <<sample, table, pair>>

\* outcome = distribution(table, compounded), prepare_returns left at its
\* default; table is the caller's object after the call.
Distribution ==
    /\ table # {}
    /\ outcome = {}
    /\ \E compounded \in BOOLEAN :
          \E d \in {distribution(The(table), compounded, TRUE)} :
              /\ outcome' = {[fn |-> "distribution", before |-> The(table),
                              compounded |-> compounded,
                              warned |-> d.warned, picked |-> d.picked,
                              resampled |-> d.resampled, res |-> d.res]}
              /\ table' = {d.caller}
    /\ UNCHANGED <<index, returns, total, curve, drawdown, details>>
    /\ UNCHANGED <<sample, pair>>

\* outcome = monthly_returns(table, False, compounded), prepare_returns left
\* at its default; table is the caller's object after the call.
MonthlyReturns ==
    /\ table # {}
    /\ outcome = {}
    /\ \E compounded \in BOOLEAN :
          \E d \in {monthly_returns(The(table), compounded, TRUE)} :
              /\ outcome' = {[fn |-> "monthly_returns", before |-> The(table),
                              compounded |-> compounded,
                              warned |-> d.warned, picked |-> d.picked,
                              res |-> d.res]}
              /\ table' = {d.caller}
    /\ UNCHANGED <<index, returns, total, curve, drawdown, details>>
    /\ UNCHANGED <<sample, pair>>

\* outcome = omega(sample, 0, required_return, periods), the sample handed
\* over as a Series or as a DataFrame of one column.
Omega ==
    /\ sample # {}
    /\ outcome = {}
    /\ \E c \in OmegaCalls, frame \in BOOLEAN :
          outcome' = {[fn |-> "omega", frame |-> frame,
                       required_return |-> c[1], periods |-> c[2],
                       res |-> omega(The(sample), frame, Zero, c[1], c[2])]}
    /\ UNCHANGED <<index, returns, total, curve, drawdown, details>>
    /\ UNCHANGED <<sample, table, pair>>

\* outcome = conditional_value_at_risk(sample, sigma, confidence), with the
\* value-at-risk of the same call.
ConditionalValueAtRisk ==
    /\ sample # {}
    /\ outcome = {}
    /\ \E c \in RiskCalls :
          outcome' = {[fn |-> "conditional_value_at_risk",
                       sigma |-> c[1], confidence |-> c[2],
                       var |-> value_at_risk(The(sample), c[1], c[2], TRUE),
                       res |-> Value(conditional_value_at_risk(
                                         The(sample), c[1], c[2], TRUE))]}
    /\ UNCHANGED <<index, returns, total, curve, drawdown, details>>
    /\ UNCHANGED <<sample, table, pair>>

\* outcome = max_drawdown(returns)
MaxDrawdown ==
    /\ returns # {}
    /\ outcome = {}
    /\ outcome' = {[fn |-> "max_drawdown",
                    res |-> Value(max_drawdown(The(returns)))]}
    /\ UNCHANGED <<index, returns, total, curve, drawdown, details>>
    /\ UNCHANGED <<sample, table, pair>>

\* outcome = match_dates(returns, benchmark) for two Series
MatchDates ==
    /\ pair # {}
    /\ outcome = {}
    /\ ~The(pair).returns.frame
    /\ The(pair).benchmark # None
    /\ ~The(The(pair).benchmark).frame
    /\ outcome' = {[fn |-> "match_dates",
                    res |-> match_dates(The(pair).returns,
                                        The(The(pair).benchmark))]}
    /\ UNCHANGED <<index, returns, total, curve, drawdown, details>>
    /\ UNCHANGED <<sample, table, pair>>

\* outcome = metrics(returns, benchmark, display=display,
\* match_dates=match)
Metrics ==
    /\ pair # {}
    /\ outcome = {}
    /\ \E display \in BOOLEAN, match \in BOOLEAN :
          outcome' = {[fn |-> "metrics", display |-> display,
                       match_dates |-> match,
                       res |-> metrics(The(pair).returns,
                                       The(pair).benchmark, display, match)]}
    /\ UNCHANGED <<index, returns, total, curve, drawdown, details>>
    /\ UNCHANGED <<sample, table, pair>>

Next ==
    \/ Comp
    \/ Compsum
    \/ ToDrawdownSeries
    \/ DrawdownDetails
    \/ MaxDrawdown
    \/ Sharpe
    \/ Sortino
    \/ RollingSortino
    \/ Omega
    \/ ConditionalValueAtRisk
    \/ Distribution
    \/ MonthlyReturns
    \/ MatchDates
    \/ Metrics

Spec == Init /\ [][Next]_vars

-----------------------------------------------------------------------------
(* What the properties below speak of.                                     *)

DD == The(drawdown)
Rows == The(details).rows
N == Len(index)

\* The position of timestamp t in the index.
PosOf(t) == CHOOSE i \in DOMAIN index : index[i] = t

Underwater(i) == DD[i] # Zero
AtHigh(i) == DD[i] = Zero

\* Timestamp index[i] lies in the window [start, end) of episode k.
InHalfOpen(i, k) == Rows[k].start <= index[i] /\ index[i] < Rows[k].end

\* Timestamp index[i] lies in the window [start, end] of episode k.
InClosed(i, k) == Rows[k].start <= index[i] /\ index[i] <= Rows[k].end

\* The series has a 0 -> non-0 transition.
HasTransition == \E i \in 2..N : AtHigh(i - 1) /\ Underwater(i)

DetailsDone == drawdown # {} /\ details # {}

\* C1 (as claimed): drawdown_details does not raise, the [start, end)
\* windows of its episodes contain exactly the underwater timestamps, no
\* two windows overlap, and the episodes come in increasing order of start.
EpisodeCoverage ==
    DetailsDone =>
        /\ ~The(details).error
        /\ \A i \in DOMAIN index :
              Underwater(i) <=> \E k \in DOMAIN Rows : InHalfOpen(i, k)
        /\ \A k, l \in DOMAIN Rows :
              k < l => /\ Rows[k].start < Rows[l].start
                       /\ ~\E i \in DOMAIN index : InHalfOpen(i, k) /\ InHalfOpen(i, l)

\* What of C1 the code does keep: no at-high timestamp lies in a [start, end)
\* window, windows do not overlap and come in increasing order of start, and
\* when the series has a 0 -> non-0 transition every underwater timestamp
\* lies in the closed window [start, end] of exactly one episode.
EpisodeCoverageKept ==
    DetailsDone =>
        /\ ~The(details).error
        /\ \A i \in DOMAIN index : \A k \in DOMAIN Rows :
              InHalfOpen(i, k) => Underwater(i)
        /\ \A k, l \in DOMAIN Rows :
              k < l => /\ Rows[k].start < Rows[l].start
                       /\ Rows[k].end < Rows[l].start
        /\ HasTransition =>
              \A i \in DOMAIN index :
                 Underwater(i) => \E k \in DOMAIN Rows : InClosed(i, k)

\* C2 (as claimed): a series underwater at its first timestamp has a first
\* episode starting at the first timestamp, and a series underwater at every
\* timestamp yields exactly one episode, from the first timestamp to the last.
BeginsUnderwaterStart ==
    (DetailsDone /\ N > 0 /\ Underwater(1)) =>
        /\ Rows # <<>>
        /\ Rows[1].start = index[1]
        /\ (\A i \in DOMAIN index : Underwater(i)) =>
              /\ Len(Rows) = 1
              /\ Rows[1].end = index[N]

\* What of C2 the code does keep: with a 0 -> non-0 transition later in the
\* series, a series that begins underwater gets its first episode from the
\* first timestamp.
BeginsUnderwaterStartKept ==
    (DetailsDone /\ N > 0 /\ Underwater(1) /\ HasTransition) =>
        /\ Rows # <<>>
        /\ Rows[1].start = index[1]

\* The end the claims give the underwater run that holds position p: the
\* first at-high timestamp after p, or the last timestamp of the series.
ExpectedEnd(p) ==
    IF \E i \in (p + 1)..N : AtHigh(i)
    THEN index[CHOOSE i \in (p + 1)..N :
                  AtHigh(i) /\ \A j \in (p + 1)..(i - 1) : Underwater(j)]
    ELSE index[N]

\* C3 (as claimed): every episode ends at the first at-high timestamp after
\* its underwater run, and a series whose last timestamp is underwater has a
\* last episode, which ends at the last timestamp.
EpisodeEnds ==
    DetailsDone =>
        /\ \A k \in DOMAIN Rows : Rows[k].end = ExpectedEnd(PosOf(Rows[k].start))
        /\ (N > 0 /\ Underwater(N)) =>
              /\ Rows # <<>>
              /\ Rows[Len(Rows)].end = index[N]

\* What of C3 the code does keep: the ends of the episodes it returns.
EpisodeEndsKept ==
    DetailsDone =>
        /\ \A k \in DOMAIN Rows : Rows[k].end = ExpectedEnd(PosOf(Rows[k].start))
        /\ (N > 0 /\ Underwater(N) /\ HasTransition) =>
              /\ Rows # <<>>
              /\ Rows[Len(Rows)].end = index[N]

\* The rows of the scenario, as the fields C4 speaks of.
Brief(row) == <<row.start, row.valley, row.end, row.maxdd>>

ScenarioDone ==
    /\ index = ScenarioIndex
    /\ returns = {ScenarioReturns}
    /\ DetailsDone

\* C4 (as claimed): the scenario yields exactly one episode, start
\* 2020-01-02, valley 2020-01-04, end 2020-01-05, max drawdown about -4.12%.
ScenarioOneEpisode ==
    ScenarioDone =>
        /\ Len(Rows) = 1
        /\ Rows[1].start = 2
        /\ Rows[1].valley = 4
        /\ Rows[1].end = 5
        /\ Less(Rat(-413, 100), Rows[1].maxdd)
        /\ Less(Rows[1].maxdd, Rat(-411, 100))

\* C4 (amended): the equity curve makes a new high on 2020-01-03, so the
\* scenario yields two episodes: start 2020-01-02, valley 2020-01-02, end
\* 2020-01-03, max drawdown -2%; and start 2020-01-04, valley 2020-01-04,
\* end 2020-01-05 (the last timestamp, unrecovered), max drawdown -5%.
ScenarioTwoEpisodes ==
    ScenarioDone =>
        /\ ~The(details).error
        /\ Len(Rows) = 2
        /\ Brief(Rows[1]) = <<2, 2, 3, Rat(-2, 1)>>
        /\ Brief(Rows[2]) = <<4, 4, 5, Rat(-5, 1)>>

ScenarioWitness == ScenarioDone /\ Len(Rows) = 2

\* The equity curve of the return series in play.
Equity == prepare_prices(The(returns))

\* The equity e[t] is the largest of e[1], ..., e[t].
AtRunningMax(e, t) == \A k \in 1..t : LessEq(e[k], e[t])

DrawdownSeriesDone == returns # {} /\ drawdown # {}

\* C5: every value of to_drawdown_series(returns) is <= 0, and it is 0 exactly
\* where the equity curve is at its running maximum; the first value is 0.
DrawdownBound ==
    DrawdownSeriesDone =>
        LET e == Equity
        IN  /\ Len(DD) = N
            /\ \A t \in DOMAIN DD :
                  /\ LessEq(DD[t], Zero)
                  /\ DD[t] = Zero <=> AtRunningMax(e, t)
            /\ N > 0 => DD[1] = Zero

\* A drawdown series with a value below 0 and, later than the first
\* timestamp, a 0 where the equity only comes back to a former high.
DrawdownBoundWitness ==
    /\ DrawdownSeriesDone
    /\ \E t \in DOMAIN DD : Less(DD[t], Zero)
    /\ LET e == Equity
       IN  \E t \in 2..N : DD[t] = Zero /\ \E k \in 1..(t - 1) : e[k] = e[t]

\* C6: on a series with no underwater timestamp (the empty series, an
\* all-zero series, the drawdown series of all-positive returns)
\* drawdown_details returns zero episodes and does not raise.
NoDrawdownNoEpisodes ==
    /\ (DrawdownSeriesDone /\ \A i \in DOMAIN index : Less(Zero, The(returns)[i]))
          => \A i \in DOMAIN index : AtHigh(i)
    /\ (DetailsDone /\ \A i \in DOMAIN index : AtHigh(i))
          => The(details) = Ok(<<>>)

\* drawdown_details has answered on the drawdown series of a non-empty
\* all-positive return series.
NoDrawdownWitness ==
    /\ DrawdownSeriesDone
    /\ details # {}
    /\ N > 1
    /\ \A i \in DOMAIN index : Less(Zero, The(returns)[i])
    /\ The(details) = Ok(<<>>)

\* The values of the drawdown series in the closed window of episode k.
ClosedWindow(k) == Where(DD, [i \in DOMAIN DD |-> InClosed(i, k)])

\* C7 (as claimed): the valley lies in [start, end), the drawdown there is
\* the minimum over [start, end), at its earliest occurrence, and 'max
\* drawdown' is 100 times the drawdown at the valley.
ValleyInHalfOpenWindow ==
    DetailsDone =>
        \A k \in DOMAIN Rows :
            LET v == PosOf(Rows[k].valley)
            IN  /\ InHalfOpen(v, k)
                /\ \A i \in DOMAIN index :
                      InHalfOpen(i, k) =>
                          /\ LessEq(DD[v], DD[i])
                          /\ i < v => DD[i] # DD[v]
                /\ Rows[k].maxdd = Times(DD[v], Hundred)

\* C7 (amended): the same over the closed window [start, end], which is what
\* the slice drawdown[start:end] takes: the valley is the end timestamp when
\* an unrecovered episode is deepest at the last timestamp of the series.
ValleyInClosedWindow ==
    DetailsDone =>
        \A k \in DOMAIN Rows :
            LET v == PosOf(Rows[k].valley)
            IN  /\ InClosed(v, k)
                /\ \A i \in DOMAIN index :
                      InClosed(i, k) =>
                          /\ LessEq(DD[v], DD[i])
                          /\ i < v => DD[i] # DD[v]
                /\ Rows[k].maxdd = Times(DD[v], Hundred)

\* An episode that starts before its end and has its valley at its end.
ValleyAtEndWitness ==
    /\ DetailsDone
    /\ \E k \in DOMAIN Rows :
          Rows[k].start < Rows[k].end /\ Rows[k].valley = Rows[k].end

\* The values of w that lie within the IQR fences of -w.
WithinFences(w) ==
    LET neg == NegSeries(w)
        Q1 == quantile(neg, 1, 4)
        Q3 == quantile(neg, 3, 4)
        reach == Times(Rat(3, 2), Minus(Q3, Q1))
        lo == Minus(Q1, reach)
        hi == Plus(Q3, reach)
    IN  Where(w, [i \in DOMAIN w |-> LessEq(lo, neg[i]) /\ LessEq(neg[i], hi)])

\* C8 (as claimed): '99% max drawdown' is 100 times the minimum of the
\* window without the values outside the IQR fences of the negated window.
TrimmedByFences ==
    DetailsDone =>
        \A k \in DOMAIN Rows :
            Rows[k].maxdd99 = Times(min(WithinFences(ClosedWindow(k))), Hundred)

\* C8 (amended): the trimming keeps the values whose negation is strictly
\* below the 0.99-quantile of the negated closed window, which always drops
\* the deepest value of the window: '99% max drawdown' is 100 times the
\* deepest of the values above the window's minimum, and NaN when there is
\* none (all values of the window equal).
TrimmedDropsDeepest ==
    DetailsDone =>
        \A k \in DOMAIN Rows :
            LET w == ClosedWindow(k)
                m == min(w)
                rest == Where(w, [i \in DOMAIN w |-> w[i] # m])
                neg == NegSeries(w)
                kept == Where(w, [i \in DOMAIN w |->
                                     Less(neg[i], quantile(neg, 99, 100))])
            IN  /\ Times(m, Hundred) = Rows[k].maxdd
                /\ Rows[k].maxdd99 = Times(min(kept), Hundred)
                /\ Rows[k].maxdd99 = Times(min(rest), Hundred)

\* An episode with at least three observations, the two deepest of them
\* equal, and a trimmed value that is a number below 0.
TrimmedWitness ==
    /\ DetailsDone
    /\ \E k \in DOMAIN Rows :
          /\ Len(ClosedWindow(k)) >= 3
          /\ \E i, j \in DOMAIN index :
                /\ i # j /\ InClosed(i, k) /\ InClosed(j, k)
                /\ Times(DD[i], Hundred) = Rows[k].maxdd
                /\ DD[j] = DD[i]
          /\ IsFinite(Rows[k].maxdd99)
          /\ Less(Rows[k].maxdd99, Zero)

\* C9: 'days' is the number of calendar days from the start date to the end
\* date, is >= 0, and is not the number of observations in between.
DaysAreCalendarDays ==
    DetailsDone =>
        \A k \in DOMAIN Rows :
            /\ Rows[k].days = Rows[k].end - Rows[k].start
            /\ Rows[k].days >= 0

\* An episode over a gap: more days than observations from start to end.
DaysOverGapWitness ==
    /\ DetailsDone
    /\ \E k \in DOMAIN Rows :
          /\ Rows[k].days > PosOf(Rows[k].end) - PosOf(Rows[k].start)
          /\ PosOf(Rows[k].end) > PosOf(Rows[k].start)

CompoundingDone == returns # {} /\ total # {} /\ curve # {}

\* C10 (as claimed): for a non-empty return series comp(returns) is the last
\* value of compsum(returns), and compsum at i is comp of returns 1..i.
CompoundingIdentity ==
    (CompoundingDone /\ N > 0) =>
        /\ The(total) = The(curve)[N]
        /\ \A i \in DOMAIN index :
              The(curve)[i] = comp(SubSeq(The(returns), 1, i))

\* C10 (amended): compsum is NaN at a missing observation and comp of returns
\* 1..i elsewhere; comp(returns) is the last value of compsum(returns) when
\* the last observation is not missing.
CompoundingIdentityObserved ==
    CompoundingDone =>
        /\ Len(The(curve)) = N
        /\ \A i \in DOMAIN index :
              The(curve)[i] = IF IsNaN(The(returns)[i]) THEN NaN
                              ELSE comp(SubSeq(The(returns), 1, i))
        /\ (N > 0 /\ ~IsNaN(The(returns)[N])) => The(total) = The(curve)[N]

\* comp and compsum have answered on a series of several returns, one of
\* them missing, the last one observed, with a total different from 0.
CompoundingWitness ==
    /\ CompoundingDone
    /\ N >= 3
    /\ \E i \in 1..(N - 1) : IsNaN(The(returns)[i])
    /\ ~IsNaN(The(returns)[N])
    /\ The(total) # Zero
    /\ The(total) = The(curve)[N]

-----------------------------------------------------------------------------
(* The ratio and risk calls.                                               *)

Called(fn) == {o \in outcome : o.fn = fn}

\* C11: sharpe and sortino called with a risk-free rate other than 0 and no
\* period count raise 'Must provide periods if rf != 0' and compute no
\* ratio; called with rf = 0 and no period count they do not raise.
PeriodsRequired ==
    \A o \in Called("sharpe") \cup Called("sortino") :
        o.periods = None =>
            /\ o.rf # Zero => o.res = Failure("Must provide periods if rf != 0")
            /\ o.rf = Zero => ~o.res.raised

\* sortino was called with a risk-free rate and no period count, and raised.
PeriodsRequiredWitness ==
    \E o \in Called("sortino") :
        o.rf # Zero /\ o.periods = None /\ o.res.raised

\* The sum of the squares of the strictly negative values of s.
SquaredLosses(s) ==
    SumOf([i \in DOMAIN s |-> IF s[i][1] < 0 THEN Square(s[i]) ELSE Zero])

\* The returns a ratio works on: the sample less the rate per period.
Prepared(o, periods) == prepare_returns(The(sample), o.rf, periods)

\* sortino divides the mean by the square root of the sum of the squares of
\* the strictly negative returns over the number of all the observations
\* (and multiplies by the root of the period count when annualized).
SortinoDownside ==
    \A o \in Called("sortino") :
        ~o.res.raised =>
            LET r == Prepared(o, o.periods)
                d2 == Over(SquaredLosses(r), Rat(Len(r), 1))
                k == IF o.annualize /\ o.periods # None
                     THEN The(o.periods) ELSE 1
            IN  /\ o.res.value.sq = Times(Over(Square(mean(r)), d2), Rat(k, 1))
                /\ ~IsNaN(d2) /\ d2 # Zero => o.res.value.sign = Sign(mean(r)[1])

\* rolling_sortino does the same in each full window, the divisor being the
\* window length; there is no ratio before the first full window.
RollingSortinoDownside ==
    \A o \in Called("rolling_sortino") :
        LET r == Prepared(o, Some(o.rolling_period))
            w == o.rolling_period
            k == IF o.annualize THEN PeriodsPerYear ELSE 1
        IN  /\ Len(o.res.value) = Len(r)
            /\ \A i \in DOMAIN r :
                  IF i < w THEN IsNaN(o.res.value[i].sq)
                  ELSE LET x == SubSeq(r, i - w + 1, i)
                           d2 == Over(SquaredLosses(x), Rat(w, 1))
                       IN  o.res.value[i].sq =
                               Times(Over(Square(mean(x)), d2), Rat(k, 1))

\* C16: the downside deviation of sortino is the square root of (the sum of
\* the squares of the strictly negative returns / the number of all the
\* observations, zeros and gains counted), and rolling_sortino applies the
\* same rule per window with the window length as the divisor.
DownsideDeviation == SortinoDownside /\ RollingSortinoDownside

\* sortino was called on returns with a loss and a period without one: the
\* number of losses and the number of observations differ, and the ratio
\* is a finite number other than 0.
DownsideWitness ==
    \E o \in Called("sortino") :
        /\ ~o.res.raised
        /\ \E i, j \in DOMAIN The(sample) :
               The(sample)[i][1] < 0 /\ The(sample)[j][1] >= 0
        /\ IsFinite(o.res.value.sq)
        /\ o.res.value.sq # Zero

-----------------------------------------------------------------------------
(* distribution and monthly_returns.                                       *)

\* The calls of distribution that returned.
Distributions == {o \in Called("distribution") : ~o.res.raised}

\* The column a call took out of the table it was given.
PickedColumn(o) == o.before.data[CHOOSE c \in o.picked : TRUE]

\* The days with an observation in that column.
ObservedDays(o) ==
    {o.before.index[i] : i \in {k \in DOMAIN PickedColumn(o) :
                                   ~IsNaN(PickedColumn(o)[k])}}

\* The name of each result of distribution with the frequency of its bins.
Granularities ==
    {<<"Weekly", "W-MON">>, <<"Monthly", "M">>,
     <<"Quarterly", "Q">>, <<"Yearly", "A">>}

\* All the values reported for a granularity.
Reported(o, g) == o.res.value[g].values \o o.res.value[g].outliers

\* C12 (as claimed): a calendar bucket without an observation contributes
\* no value to the result of distribution: the values reported for a
\* granularity are as many as the buckets with an observation, and no bin
\* of the resampled series is empty, compounded or not.
EmptyBucketsOmitted ==
    \A o \in Distributions : \A g \in Granularities :
        /\ Len(Reported(o, g[1])) =
               Cardinality({BucketOf(g[2], d) : d \in ObservedDays(o)})
        /\ \A k \in DOMAIN o.resampled[g[1]] :
               o.resampled[g[1]][k].days # <<>>

\* C12 (what the code keeps): the values reported for a granularity are as
\* many as the calendar buckets from that of the first observation to that
\* of the last, and a bucket without an observation is reported as 0.
EmptyBucketsReportedAsZero ==
    \A o \in Distributions : \A g \in Granularities :
        LET first == CHOOSE d \in ObservedDays(o) :
                         \A e \in ObservedDays(o) : d <= e
            last == CHOOSE d \in ObservedDays(o) :
                        \A e \in ObservedDays(o) : e <= d
        IN  /\ Len(Reported(o, g[1])) =
                   BucketOf(g[2], last) - BucketOf(g[2], first) + 1
            /\ \A k \in DOMAIN o.resampled[g[1]] :
                   o.resampled[g[1]][k].days = <<>> =>
                       o.resampled[g[1]][k].value = Zero

\* The values of the picked column on the given days, in order.
ValuesOn(o, days) ==
    Where(PickedColumn(o),
          [i \in DOMAIN PickedColumn(o) |-> o.before.index[i] \in days])

\* C13: compounding the returns inside each calendar-year bucket with comp
\* (the yearly values of distribution, compounded) and then compounding the
\* yearly values with comp gives comp over the whole series.
AggregationIdentity ==
    \A o \in Distributions :
        o.compounded =>
            /\ \A k \in DOMAIN o.resampled.Yearly :
                  o.resampled.Yearly[k].value =
                      comp(ValuesOn(o, {d \in ObservedDays(o) :
                              YearOf(d) = o.resampled.Yearly[k].bucket}))
            /\ comp(Reported(o, "Yearly")) = comp(PickedColumn(o))

\* distribution compounded a series with observations in both years, more
\* than one of them in a year, and a total return other than 0.
AggregationWitness ==
    \E o \in Distributions :
        /\ o.compounded
        /\ Len(o.resampled.Yearly) = 2
        /\ \E k \in DOMAIN o.resampled.Yearly :
               Len(o.resampled.Yearly[k].days) > 1
        /\ comp(PickedColumn(o)) # Zero

\* The Monday-to-Sunday week of a day (day 6 is Monday 2020-01-06).
IsoWeek(d) == (d - 6) \div 7

\* Two days lie in one bin of the weekly series.
SameWeeklyBin(o, d, e) ==
    \E k \in DOMAIN o.resampled.Weekly :
        LET days == o.resampled.Weekly[k].days
        IN  /\ \E i \in DOMAIN days : days[i] = d
            /\ \E i \in DOMAIN days : days[i] = e

\* C14 (as claimed): two observations fall in the same weekly bucket of
\* distribution if and only if they lie in the same Monday-to-Sunday week.
WeeklyBucketsAreIsoWeeks ==
    \A o \in Distributions : \A d, e \in ObservedDays(o) :
        SameWeeklyBin(o, d, e) <=> IsoWeek(d) = IsoWeek(e)

\* C14 (what the code keeps): two observations fall in the same weekly
\* bucket if and only if they lie in the same Tuesday-to-Monday week.
WeeklyBucketsEndOnMonday ==
    \A o \in Distributions : \A d, e \in ObservedDays(o) :
        SameWeeklyBin(o, d, e) <=> IsoWeek(d - 1) = IsoWeek(e - 1)

\* The calls that were handed a DataFrame of several columns.
MultiColumnCalls ==
    {o \in Called("distribution") \cup Called("monthly_returns") :
        o.before.frame /\ Len(o.before.columns) > 1}

\* C17 (as claimed): given a multi-column input, distribution and
\* monthly_returns do not fail: they warn and take exactly one column, the
\* column named "close" if there is one and the first column otherwise.
CloseElseFirstColumn ==
    \A o \in MultiColumnCalls :
        /\ ~o.res.raised
        /\ o.warned
        /\ o.picked =
               IF \E c \in DOMAIN o.before.columns :
                      o.before.columns[c] = Str("close")
               THEN {c \in DOMAIN o.before.columns :
                        o.before.columns[c] = Str("close")}
               ELSE {1}
        /\ Cardinality(o.picked) = 1

\* C17 (what the code keeps): a DataFrame always draws the warning; with a
\* column label that is not a string the call raises TypeError; with
\* strings, the call takes the columns whose lower-cased name is "close"
\* if there is one, those of the lower-cased name of the first column
\* otherwise, and goes on if and only if that is a single column.
CloseInAnyCaseElseFirstColumn ==
    \A o \in MultiColumnCalls :
        LET cols == o.before.columns
            low(c) == lower(cols[c].text)
        IN  /\ o.warned
            /\ IF \E c \in DOMAIN cols : ~cols[c].str
               THEN o.res = Failure("TypeError")
               ELSE /\ o.picked =
                         IF \E c \in DOMAIN cols : low(c) = "close"
                         THEN {c \in DOMAIN cols : low(c) = "close"}
                         ELSE {c \in DOMAIN cols : low(c) = low(1)}
                    /\ o.res.raised <=> Cardinality(o.picked) > 1

\* C19: no call changes the object it is handed: across distribution and
\* monthly_returns the caller's table (values, index and column names),
\* and across to_drawdown_series and drawdown_details the caller's series
\* and its index, are the same after the call as before.
NoMutation ==
    [][/\ table # {} => table' = table
       /\ returns # {} => returns' = returns
       /\ drawdown # {} => drawdown' = drawdown
       /\ index' = index]_vars

\* distribution or monthly_returns went through with a DataFrame of several
\* columns whose names are not in lower case, and the caller's table is as
\* it was handed in.
NoMutationWitness ==
    \E o \in MultiColumnCalls :
        /\ ~o.res.raised
        /\ \E c \in DOMAIN o.before.columns :
               lower(o.before.columns[c].text) # o.before.columns[c].text
        /\ table = {o.before}

-----------------------------------------------------------------------------
(* conditional_value_at_risk and omega.                                    *)

\* The positions of the returns strictly below the value-at-risk of a call.
Breaches(o) ==
    {i \in DOMAIN The(sample) : BelowVar(The(sample)[i], o.var)}

\* C15: conditional_value_at_risk returns the mean of the returns strictly
\* below the value-at-risk when there is one, and the value-at-risk itself
\* when there is none (never the NaN of the mean of nothing); a return
\* equal to the threshold is no breach.
ExpectedShortfall ==
    \A o \in Called("conditional_value_at_risk") :
        LET r == The(sample)
            losses == SumOf([i \in DOMAIN r |->
                                IF i \in Breaches(o) THEN r[i] ELSE Zero])
        IN  /\ ~o.res.raised
            /\ Breaches(o) # {} =>
                   o.res.value =
                       Number(Over(losses, Rat(Cardinality(Breaches(o)), 1)),
                              Zero)
            /\ Breaches(o) = {} => o.res.value = o.var
            /\ \A i \in DOMAIN r :
                   Square(Minus(o.var.mu, r[i])) = o.var.spread2 =>
                       i \notin Breaches(o)

\* No return was below a value-at-risk that is a number: the call gave the
\* value-at-risk back.
ShortfallFallbackWitness ==
    \E o \in Called("conditional_value_at_risk") :
        /\ ~o.var.nan
        /\ Breaches(o) = {}
        /\ o.res.value = o.var

\* Some returns, not all, were below the value-at-risk: the call gave their
\* mean.
ShortfallMeanWitness ==
    \E o \in Called("conditional_value_at_risk") :
        /\ Cardinality(Breaches(o)) > 1
        /\ o.res.value.spread2 = Zero
        /\ o.res.value.mu # o.var.mu

\* The sum of the amounts by which the returns of s exceed t.
Excess(s, t) ==
    SumOf([i \in DOMAIN s |->
              IF Less(t, s[i]) THEN Minus(s[i], t) ELSE Zero])

\* The sum of the amounts by which the returns of s fall short of t.
Shortfall(s, t) ==
    SumOf([i \in DOMAIN s |->
              IF Less(s[i], t) THEN Minus(t, s[i]) ELSE Zero])

\* What C18 says of a call of omega: NaN for fewer than two observations,
\* for required_return <= -1 and for no return below the threshold per
\* period; the sum of the excesses over the sum of the shortfalls, which is
\* not negative, otherwise; and no exception.
OmegaAsClaimed(o) ==
    LET r == The(sample)
        t == IF o.periods = 1 THEN o.required_return ELSE Zero
        degenerate == \/ Len(r) < 2
                      \/ LessEq(o.required_return, Neg(One))
                      \/ Shortfall(r, t) = Zero
    IN  /\ ~o.res.raised
        /\ IF degenerate THEN IsNaN(o.res.value)
           ELSE /\ o.res.value = Over(Excess(r, t), Shortfall(r, t))
                /\ LessEq(Zero, o.res.value)

\* C18 (as claimed): omega yields NaN instead of raising or returning 0 in
\* each degenerate case (fewer than 2 observations, required_return <= -1,
\* no return below the threshold), and in every other case the sum of the
\* excesses over the sum of the shortfalls, which is >= 0.
OmegaNeverRaises == \A o \in Called("omega") : OmegaAsClaimed(o)

\* C18 (what the code keeps): that holds when omega is handed a DataFrame;
\* handed a Series of two or more returns with required_return > -1 it
\* raises AttributeError.
OmegaOfFrameOnly ==
    \A o \in Called("omega") :
        IF o.frame THEN OmegaAsClaimed(o)
        ELSE IF Len(The(sample)) < 2 \/ LessEq(o.required_return, Neg(One))
             THEN o.res = Value(NaN)
             ELSE o.res = Failure("AttributeError")

-----------------------------------------------------------------------------
(* The lists of starts and ends inside drawdown_details.                   *)

\* starts and ends after the fix-ups at the two ends of the series.
FixedStarts ==
    FixStarts(index, DetectedStarts(index, DD), DetectedEnds(index, DD))
FixedEnds == FixEnds(index, FixedStarts, DetectedEnds(index, DD))

\* C20: in drawdown_details, for every drawdown series with at least one
\* detected start, after the fix-ups starts and ends have the same length,
\* starts[i] <= ends[i] for every i and ends[i] < starts[i+1] when i+1
\* exists: the pairing of starts[i] with ends[i] never runs past the end of
\* ends and never meets an end that precedes its start, so the call does
\* not raise and row i is built from starts[i] and ends[i].
StartsPairWithEnds ==
    DetailsDone /\ DetectedStarts(index, DD) # <<>> =>
        /\ Len(FixedStarts) = Len(FixedEnds)
        /\ \A i \in DOMAIN FixedStarts :
              /\ i <= Len(FixedEnds)
              /\ FixedStarts[i] <= FixedEnds[i]
              /\ i + 1 <= Len(FixedStarts) => FixedEnds[i] < FixedStarts[i + 1]
        /\ ~The(details).error
        /\ Len(Rows) = Len(FixedStarts)
        /\ \A i \in DOMAIN Rows :
              Rows[i].start = FixedStarts[i] /\ Rows[i].end = FixedEnds[i]

\* drawdown_details ran on a series that begins and ends in a drawdown with
\* a recovery in between: both fix-ups added a timestamp.
StartsPairWithEndsWitness ==
    /\ DetailsDone
    /\ DetectedStarts(index, DD) # <<>>
    /\ FixedStarts # DetectedStarts(index, DD)
    /\ FixedEnds # DetectedEnds(index, DD)

-----------------------------------------------------------------------------
(* max_drawdown against the drawdown series and the episodes.              *)

\* The return series in play is not empty and every return is above -1.
ReturnsAboveMinusOne ==
    /\ returns # {}
    /\ N > 0
    /\ \A i \in DOMAIN The(returns) : Less(Neg(One), The(returns)[i])

\* The most negative 'max drawdown' of the episodes as a fraction, 0 when
\* there is no episode.
DeepestEpisode ==
    IF Rows = <<>> THEN Zero
    ELSE min([k \in DOMAIN Rows |-> Over(Rows[k].maxdd, Hundred)])

\* C21: for a non-empty return series with all returns above -1,
\* max_drawdown(returns) equals the minimum of to_drawdown_series(returns),
\* and that minimum equals the most negative 'max drawdown' over the
\* episodes of drawdown_details divided by 100 (0 when there is no episode).
MaxDrawdownAgrees ==
    ReturnsAboveMinusOne =>
        /\ (drawdown # {}) =>
              \A o \in Called("max_drawdown") : o.res = Value(min(DD))
        /\ DetailsDone =>
              /\ ~The(details).error
              /\ DeepestEpisode = min(DD)

\* max_drawdown, to_drawdown_series and drawdown_details have answered on a
\* return series with two episodes of different depth.
MaxDrawdownWitness ==
    /\ ReturnsAboveMinusOne
    /\ Called("max_drawdown") # {}
    /\ DetailsDone
    /\ Len(Rows) = 2
    /\ Rows[1].maxdd # Rows[2].maxdd

-----------------------------------------------------------------------------
(* The trimmed depth of an episode.                                        *)

\* C22 (as claimed): the '99% max drawdown' of every episode is a number,
\* not NaN, and lies between the episode's 'max drawdown' and 0, also when
\* the episode's window has one or two observations.
TrimmedDepthDefined ==
    DetailsDone =>
        \A k \in DOMAIN Rows :
            /\ IsFinite(Rows[k].maxdd99)
            /\ LessEq(Rows[k].maxdd, Rows[k].maxdd99)
            /\ LessEq(Rows[k].maxdd99, Zero)

\* What the code keeps: the '99% max drawdown' is NaN exactly when all
\* values of the episode's closed window are equal (an episode that is not
\* recovered and stays at one depth, such as one that begins at the last
\* timestamp), and lies between 'max drawdown' and 0 otherwise.
TrimmedDepthDefinedUnlessFlat ==
    DetailsDone =>
        \A k \in DOMAIN Rows :
            LET w == ClosedWindow(k)
            IN  IF \A i, j \in DOMAIN w : w[i] = w[j]
                THEN IsNaN(Rows[k].maxdd99)
                ELSE /\ IsFinite(Rows[k].maxdd99)
                     /\ LessEq(Rows[k].maxdd, Rows[k].maxdd99)
                     /\ LessEq(Rows[k].maxdd99, Zero)

\* The drawdown series of a return series turns underwater at its last
\* timestamp: the episode's window is that one observation.
TrimmedDepthOfLastDip ==
    /\ DrawdownSeriesDone
    /\ DetailsDone
    /\ N >= 2
    /\ Len(Rows) >= 1
    /\ Rows[Len(Rows)].start = index[N]
    /\ IsNaN(Rows[Len(Rows)].maxdd99)

-----------------------------------------------------------------------------
(* match_dates: the common start.                                          *)

\* The returns and the benchmark handed to the call.
Rets == The(pair).returns
Bench == The(The(pair).benchmark)

\* The positions of s with a value other than 0.
NonZero(s) == {i \in DOMAIN s.index : s.data[1][i] # Zero}

\* The later of the first non-zero timestamps of returns and benchmark,
\* each of them having one.
CommonStart ==
    LET first(s) == s.index[CHOOSE i \in NonZero(s) :
                                \A k \in NonZero(s) : i <= k]
    IN  max(first(Rets), first(Bench))

\* The observations of s at the timestamp t and later.
From(s, t) ==
    LET at == {i \in DOMAIN s.index : s.index[i] >= t}
        pos(k) == CHOOSE i \in at : Cardinality({j \in at : j < i}) = k - 1
    IN  [s EXCEPT !.index = [k \in 1..Cardinality(at) |-> s.index[pos(k)]],
                  !.data = <<[k \in 1..Cardinality(at) |->
                                 s.data[1][pos(k)]]>>]

\* C23 (as claimed): both series returned by match_dates begin at the later
\* of the first non-zero timestamp of returns and the first non-zero
\* timestamp of benchmark, and keep every observation from there on.
MatchedAtCommonStart ==
    \A o \in Called("match_dates") :
        (NonZero(Rets) # {} /\ NonZero(Bench) # {}) =>
            /\ o.res[1].index[1] = CommonStart
            /\ o.res[2].index[1] = CommonStart
            /\ o.res[1] = From(Rets, CommonStart)
            /\ o.res[2] = From(Bench, CommonStart)

\* What the code keeps: returns is cut at the common start; benchmark is cut
\* at the first timestamp from the common start on where returns is not 0,
\* and at the common start when returns is 0 from there on.
MatchedReturnsOnly ==
    \A o \in Called("match_dates") :
        (NonZero(Rets) # {} /\ NonZero(Bench) # {}) =>
            LET later == {i \in NonZero(Rets) : Rets.index[i] >= CommonStart}
                cut == IF later = {} THEN CommonStart
                       ELSE Rets.index[CHOOSE i \in later :
                                          \A k \in later : i <= k]
            IN  /\ o.res[1] = From(Rets, CommonStart)
                /\ o.res[2] = From(Bench, cut)

\* match_dates has answered on returns that start before the benchmark and
\* are 0 at the benchmark's first non-zero timestamp: the two series
\* returned begin at different timestamps.
MatchedApart ==
    \E o \in Called("match_dates") :
        /\ NonZero(Rets) # {} /\ NonZero(Bench) # {}
        /\ o.res[1].index[1] < o.res[2].index[1]

-----------------------------------------------------------------------------
(* metrics: the shapes of returns and benchmark.                           *)

\* A DataFrame of more than one column.
MultiColumn(t) == t.frame /\ Len(t.columns) > 1

\* The single series of a Series or of a DataFrame of one column.
SingleSeries(t) == IF t.frame THEN ColumnOf(t, 1) ELSE t

=============================================================================
